---- MODULE Spec2Model ----
(***************************************************************************)
(* SchedulingService (services/scheduling.ts): the availability engine.    *)
(*                                                                         *)
(* Instants are whole minutes since a Sunday 00:00 local time, so that     *)
(* Date.getDay() and Date.getHours() are arithmetic on the instant.  The   *)
(* model has no daylight-saving shifts and no sub-minute instants.         *)
(* An "HH:mm" string is the pair <<HH, mm>> that split(':').map(Number)    *)
(* yields.                                                                 *)
(***************************************************************************)
EXTENDS Integers, Sequences, FiniteSets

VARIABLES
    calendar,     \* the busy intervals on the leader's calendar (environment)
    now,          \* the wall clock read when the operation was called
    pc,           \* "idle" | "awaiting" | "done" | "failed" | "hung"
    op,           \* the operation in progress
    args,         \* its arguments
    query,        \* the window asked of GoogleCalendarService.getFreeBusy
    busyTimes,    \* the answer of getFreeBusy
    sourceError,  \* the error getFreeBusy threw, or NoError
    allSlots,     \* generatePossibleSlots' result
    scoredSlots,  \* suggestOptimalTimes' scored and sorted candidates
    result,       \* what the operation returned
    error,        \* what the operation threw, or NoError
    fetches,      \* the getFreeBusy requests the invocation has issued
    invocations   \* the locals of each of several invocations in flight

vars == << calendar, now, pc, op, args, query, busyTimes, sourceError,
           allSlots, scoredSlots, result, error, fetches, invocations >>

----------------------------------------------------------------------------
(* Bounds of the model *)

\* dateRange.start and the clock fall on days 0..MaxStartDay (day 0 is a Sunday)
MaxStartDay == 1
\* the calendar holds at most MaxBusy busy intervals
MaxBusy == 1
\* SpecScore: a slot starts at most MaxLagDays days after (or before) "now"
MaxLagDays == 3
\* SpecScore: and a slot FarLagDays days away, where the recency term exceeds the base
FarLagDays == 60

----------------------------------------------------------------------------
(* Program constants *)

MinutesPerDay == 1440
DefaultBufferTime == 15
SuggestWindowDays == 14
NextWindowDays == 30
TopSuggestions == 10
BaseScore == 100

defaultBusinessHours ==
    [start |-> <<9, 0>>, end |-> <<21, 0>>, daysOfWeek |-> {0, 1, 2, 3, 4, 5, 6}]

----------------------------------------------------------------------------
(* Values *)

NoError == "none"

Day(d) == d * MinutesPerDay
At(d, h, m) == Day(d) + h * 60 + m

\* Date.getDay(), Date.getHours()
GetDay(t) == (t \div MinutesPerDay) % 7
GetHours(t) == (t % MinutesPerDay) \div 60
\* Date.setHours(0, 0, 0, 0)
Midnight(t) == t - (t % MinutesPerDay)
\* Date.setHours(h, m, 0, 0) on a date
SetHours(t, hm) == Midnight(t) + hm[1] * 60 + hm[2]

----------------------------------------------------------------------------
(* SchedulingPreferences (types/index.ts).  An optional field carries a     *)
(* "defined" flag; the whole argument may be omitted too.                   *)

Prefs(wh, wd, buf, pt, pd) ==
    [defined |-> TRUE, workingHours |-> wh, workingDays |-> wd,
     bufferMinutes |-> buf, timezone |-> "local",
     preferredTimes |-> pt, preferredDays |-> pd]

NoTimes == [defined |-> FALSE, start |-> <<0, 0>>, end |-> <<0, 0>>, daysOfWeek |-> {}]
Times(s, e, days) == [defined |-> TRUE, start |-> s, end |-> e, daysOfWeek |-> days]
NoDays == [defined |-> FALSE, days |-> {}]
Days(days) == [defined |-> TRUE, days |-> days]

OmittedPrefs == Prefs([start |-> <<0, 0>>, end |-> <<0, 0>>], {}, 0, NoTimes, NoDays)
NoPreferences == [OmittedPrefs EXCEPT !.defined = FALSE]

\* preferences?.bufferMinutes || this.defaultBufferTime
EffectiveBuffer(preferences) ==
    IF preferences.defined /\ preferences.bufferMinutes # 0
    THEN preferences.bufferMinutes
    ELSE DefaultBufferTime

\* preferences?.preferredTimes || this.defaultBusinessHours
EffectiveBusinessHours(preferences) ==
    IF preferences.defined /\ preferences.preferredTimes.defined
    THEN [start |-> preferences.preferredTimes.start,
          end |-> preferences.preferredTimes.end,
          daysOfWeek |-> preferences.preferredTimes.daysOfWeek]
    ELSE defaultBusinessHours

----------------------------------------------------------------------------
(* generatePossibleSlots *)

\* the slot pushed for one position of the cursor
NewSlotPlusBuffer(slotStart, duration, slotDuration) ==
    [start |-> slotStart, end |-> slotStart + slotDuration, available |-> TRUE]

NewSlot(slotStart, duration, slotDuration) ==
    [start |-> slotStart, end |-> slotStart + duration, available |-> TRUE]

\* the inner while loop: one day's slots, the cursor advancing by slotDuration
RECURSIVE DaySlots(_, _, _, _)
DaySlots(slotStart, dayEnd, duration, slotDuration) ==
    IF slotStart + duration <= dayEnd
    THEN << NewSlot(slotStart, duration, slotDuration) >>
         \o DaySlots(slotStart + slotDuration, dayEnd, duration, slotDuration)
    ELSE << >>

\* the outer while loop: one calendar day after the other, up to dateRange.end
RECURSIVE SlotsFrom(_, _, _, _, _)
SlotsFrom(currentDate, dateRange, duration, slotDuration, businessHours) ==
    IF currentDate <= dateRange.end
    THEN (IF GetDay(currentDate) \in businessHours.daysOfWeek
          THEN DaySlots(SetHours(currentDate, businessHours.start),
                        SetHours(currentDate, businessHours.end),
                        duration, slotDuration)
          ELSE << >>)
         \o SlotsFrom(currentDate + MinutesPerDay, dateRange, duration,
                      slotDuration, businessHours)
    ELSE << >>

\* a variant whose cursor advances five minutes less than duration + buffer
generatePossibleSlotsShortPitch(dateRange, duration, bufferTime, businessHours) ==
    SlotsFrom(Midnight(dateRange.start), dateRange, duration,
              duration + bufferTime - 5, businessHours)

generatePossibleSlots(dateRange, duration, bufferTime, businessHours) ==
    SlotsFrom(Midnight(dateRange.start), dateRange, duration,
              duration + bufferTime, businessHours)

\* The inner loop never ends when the cursor does not advance and the first
\* slot of some business day fits.
LoopsForever(dateRange, duration, bufferTime, businessHours) ==
    /\ duration + bufferTime <= 0
    /\ SetHours(0, businessHours.start) + duration <= SetHours(0, businessHours.end)
    /\ \E k \in 0 .. 6 :
          /\ Midnight(dateRange.start) + Day(k) <= dateRange.end
          /\ GetDay(Midnight(dateRange.start) + Day(k)) \in businessHours.daysOfWeek

----------------------------------------------------------------------------
(* isSlotBusy *)

isSlotBusyNoContain(slot, busy, bufferTime) ==
    LET slotStartWithBuffer == slot.start - bufferTime
        slotEndWithBuffer == slot.end + bufferTime
    IN \E b \in busy :
          \/ (slotStartWithBuffer >= b.start /\ slotStartWithBuffer < b.end)
          \/ (slotEndWithBuffer > b.start /\ slotEndWithBuffer <= b.end)

\* a variant whose tests are closed at both ends of the busy interval
isSlotBusyTouching(slot, busy, bufferTime) ==
    LET slotStartWithBuffer == slot.start - bufferTime
        slotEndWithBuffer == slot.end + bufferTime
    IN \E b \in busy :
          \/ (slotStartWithBuffer >= b.start /\ slotStartWithBuffer <= b.end)
          \/ (slotEndWithBuffer >= b.start /\ slotEndWithBuffer <= b.end)
          \/ (slotStartWithBuffer <= b.start /\ slotEndWithBuffer >= b.end)

isSlotBusy(slot, busy, bufferTime) ==
    LET slotStartWithBuffer == slot.start - bufferTime
        slotEndWithBuffer == slot.end + bufferTime
    IN \E b \in busy :
          \/ (slotStartWithBuffer >= b.start /\ slotStartWithBuffer < b.end)
          \/ (slotEndWithBuffer > b.start /\ slotEndWithBuffer <= b.end)
          \/ (slotStartWithBuffer <= b.start /\ slotEndWithBuffer >= b.end)

\* a variant that hands the survivors over latest first
FilterAvailableReversed(slots, busy, bufferTime) ==
    LET kept == SelectSeq(slots, LAMBDA slot : ~isSlotBusy(slot, busy, bufferTime))
    IN [i \in 1 .. Len(kept) |-> kept[Len(kept) + 1 - i]]

\* allSlots.filter(slot => !this.isSlotBusy(slot, busyTimes, bufferTime))
FilterAvailable(slots, busy, bufferTime) ==
    SelectSeq(slots, LAMBDA slot : ~isSlotBusy(slot, busy, bufferTime))

----------------------------------------------------------------------------
(* calculateSlotScore; clock is the value of new Date() inside it *)

calculateSlotScoreBonus10(slot, preferences, clock) ==
    LET slotHour == GetHours(slot.start)
        slotDay == GetDay(slot.start)
        s1 == BaseScore
              + (IF slotHour >= 18 /\ slotHour < 20 /\ slotDay >= 1 /\ slotDay <= 5
                 THEN 30 ELSE 0)
        s2 == s1 + (IF slotDay = 0 /\ slotHour >= 14 /\ slotHour < 17 THEN 25 ELSE 0)
        s3 == s2 - (IF slotHour < 10 \/ slotHour >= 20 THEN 20 ELSE 0)
        daysFromNow == (slot.start - clock) \div MinutesPerDay
        s4 == s3 - daysFromNow * 2
        s5 == s4 + (IF /\ preferences.defined
                       /\ preferences.preferredDays.defined
                       /\ slotDay \in preferences.preferredDays.days
                    THEN 10 ELSE 0)
    IN IF s5 > 0 THEN s5 ELSE 0

calculateSlotScore(slot, preferences, clock) ==
    LET slotHour == GetHours(slot.start)
        slotDay == GetDay(slot.start)
        s1 == BaseScore
              + (IF slotHour >= 18 /\ slotHour < 20 /\ slotDay >= 1 /\ slotDay <= 5
                 THEN 30 ELSE 0)
        s2 == s1 + (IF slotDay = 0 /\ slotHour >= 14 /\ slotHour < 17 THEN 25 ELSE 0)
        s3 == s2 - (IF slotHour < 10 \/ slotHour >= 20 THEN 20 ELSE 0)
        \* Math.floor((slot.start - now) / one day)
        daysFromNow == (slot.start - clock) \div MinutesPerDay
        s4 == s3 - daysFromNow * 2
        s5 == s4 + (IF /\ preferences.defined
                       /\ preferences.preferredDays.defined
                       /\ slotDay \in preferences.preferredDays.days
                    THEN 20 ELSE 0)
    IN IF s5 > 0 THEN s5 ELSE 0

----------------------------------------------------------------------------
(* suggestOptimalTimes: scoring, the sort and the cut *)

\* .sort((a, b) => b.score - a.score): negative when a goes before b
CompareAscending(a, b) == a.score - b.score

Compare(a, b) == b.score - a.score

\* a variant that is not stable: among ties the later element comes first
SortTiesReversed(s) ==
    LET n == Len(s)
        position == SubSeq([i \in 1 .. n |->
                               1 + Cardinality({j \in 1 .. n :
                                       \/ Compare(s[j], s[i]) < 0
                                       \/ (Compare(s[j], s[i]) = 0 /\ j > i)})],
                           1, n)
    IN [k \in 1 .. n |-> s[CHOOSE i \in 1 .. n : position[i] = k]]

\* Array.prototype.sort is stable: element i comes after every element the
\* comparator puts before it, and after the earlier elements it ties with.
SortByCompare(s) ==
    LET n == Len(s)
        \* (SubSeq: the ranks as a sequence, computed once)
        position == SubSeq([i \in 1 .. n |->
                               1 + Cardinality({j \in 1 .. n :
                                       \/ Compare(s[j], s[i]) < 0
                                       \/ (Compare(s[j], s[i]) = 0 /\ j < i)})],
                           1, n)
    IN [k \in 1 .. n |-> s[CHOOSE i \in 1 .. n : position[i] = k]]

\* availableSlots.map(slot => ({ ...slot, score })); candidate i is scored
\* against the clock read at that moment, clockAt[i]
ScoreAll(slots, preferences, clockAt) ==
    [i \in 1 .. Len(slots) |->
        [start |-> slots[i].start, end |-> slots[i].end,
         available |-> slots[i].available,
         score |-> calculateSlotScore(slots[i], preferences, clockAt[i]),
         clock |-> clockAt[i]]]

\* a variant that keeps the last n elements
SliceTail(s, n) == SubSeq(s, IF Len(s) < n THEN 1 ELSE Len(s) - n + 1, Len(s))

\* .slice(0, 10)
Slice(s, n) == SubSeq(s, 1, IF Len(s) < n THEN Len(s) ELSE n)

\* .map(({ score, ...slot }) => slot)
StripScore(s) ==
    [i \in 1 .. Len(s) |->
        [start |-> s[i].start, end |-> s[i].end, available |-> s[i].available]]

----------------------------------------------------------------------------
(* The busy-time source: the free/busy answer of the calendar server for a  *)
(* window is the calendar's busy intervals that intersect the window, cut   *)
(* to the window or not.  SchedulingService reads the value getFreeBusy     *)
(* resolves to as an array of {start, end} (busyTimes.some, .length), and   *)
(* the answer is modelled as that collection.                               *)

Max(a, b) == IF a >= b THEN a ELSE b
Min(a, b) == IF a <= b THEN a ELSE b

GetFreeBusyAnswer(cal, timeMin, timeMax, clip) ==
    { IF clip
      THEN [start |-> Max(b.start, timeMin), end |-> Min(b.end, timeMax)]
      ELSE b : b \in {c \in cal : c.start < timeMax /\ c.end > timeMin} }

SourceErrors == {"No access token available", "Failed to get free/busy info"}

\* isSlotAvailable against a calendar whose server answers at once:
\* the window it asks for, and busyTimes.length === 0
IsSlotAvailableOn(cal, start, duration, bufferTime) ==
    LET end == start + duration
        checkStart == start - bufferTime
        checkEnd == end + bufferTime
    IN Cardinality(GetFreeBusyAnswer(cal, checkStart, checkEnd, FALSE)) = 0

----------------------------------------------------------------------------
(* Inputs *)

Interval(s, e) == [start |-> s, end |-> e]

BusyPool ==
    { Interval(At(1, 9, 0), At(1, 9, 15)),
      Interval(At(1, 10, 0), At(1, 14, 0)),
      Interval(At(0, 12, 0), At(2, 12, 0)) }

Calendars == {c \in SUBSET BusyPool : Cardinality(c) <= MaxBusy}

Durations == {15, 60, 720, 0, -15}
RankedDurations == {60, 720}

WeekDays == {1, 2, 3, 4, 5}

ScenarioAPrefs ==
    Prefs([start |-> <<9, 0>>, end |-> <<17, 0>>], WeekDays, 0, NoTimes, NoDays)
AfternoonPrefs ==
    Prefs([start |-> <<9, 0>>, end |-> <<17, 0>>], WeekDays, 30,
          Times(<<14, 0>>, <<20, 0>>, {0, 1, 2}), Days({0}))

PrefsSet == {NoPreferences, ScenarioAPrefs, AfternoonPrefs}

StartInstants == {At(d, h, 0) : d \in 0 .. MaxStartDay, h \in {0, 10}}

DateRanges ==
    UNION { { [start |-> s, end |-> Midnight(s) + MinutesPerDay - 1],
              [start |-> s, end |-> Midnight(s) + MinutesPerDay + 720],
              [start |-> s, end |-> s - 60] } : s \in StartInstants }

NowInstants == {At(d, h, 0) : d \in 0 .. MaxStartDay, h \in {9, 15}}
Delays == {0, 30}

CheckStarts == {At(1, 9, 0), At(1, 9, 15), At(1, 9, 30), At(1, 15, 0)}
CheckDurations == {15, 60}
\* the bufferTime argument of isSlotAvailable: omitted (undefined), or a number
CheckBuffers == {[given |-> FALSE, value |-> 0],
                 [given |-> TRUE, value |-> 0],
                 [given |-> TRUE, value |-> 15]}

\* a variant that takes the default for every falsy argument (bufferTime || 15)
BufferArgumentOrDefault(buffer) ==
    IF buffer.given /\ buffer.value # 0 THEN buffer.value ELSE DefaultBufferTime

\* the default parameter bufferTime = this.defaultBufferTime: only undefined
\* takes the default
BufferArgument(buffer) ==
    IF buffer.given THEN buffer.value ELSE DefaultBufferTime

NoArgs ==
    [duration |-> 0, dateRange |-> [start |-> 0, end |-> 0],
     preferences |-> NoPreferences, start |-> 0, bufferGiven |-> FALSE,
     bufferTime |-> 0]
NoQuery == [timeMin |-> 0, timeMax |-> 0]
NoResult == [kind |-> "none"]
NoClock == [first |-> 0, tickAt |-> 0]

\* the invocations that may be in flight together, and the locals of one
Invocations == {1, 2}
IdleInvocation ==
    [pc |-> "idle", op |-> "none", args |-> NoArgs, query |-> NoQuery,
     busyTimes |-> {}, sourceError |-> NoError, clock |-> NoClock,
     result |-> NoResult, error |-> NoError]
NoInvocations == [p \in Invocations |-> IdleInvocation]

----------------------------------------------------------------------------
(* The state machine: one invocation at a time, suspended only at its       *)
(* await of getFreeBusy.                                                    *)

Init ==
    /\ calendar \in Calendars
    /\ now = 0
    /\ pc = "idle"
    /\ op = "none"
    /\ args = NoArgs
    /\ query = NoQuery
    /\ busyTimes = {}
    /\ sourceError = NoError
    /\ allSlots = << >>
    /\ scoredSlots = << >>
    /\ result = NoResult
    /\ error = NoError
    /\ fetches = 0
    /\ invocations = NoInvocations

\* an operation runs up to its await of getFreeBusy(calendarId, timeMin, timeMax)
Suspend(name, a, timeMin, timeMax) ==
    /\ op' = name
    /\ args' = a
    /\ query' = [timeMin |-> timeMin, timeMax |-> timeMax]
    /\ pc' = "awaiting"
    /\ fetches' = fetches + 1
    /\ UNCHANGED << calendar, invocations, busyTimes, sourceError, allSlots,
                    scoredSlots, result, error >>

CallFindAvailableSlots ==
    /\ pc = "idle"
    /\ \E duration \in Durations, dateRange \in DateRanges, preferences \in PrefsSet :
          Suspend("findAvailableSlots",
                  [NoArgs EXCEPT !.duration = duration, !.dateRange = dateRange,
                                 !.preferences = preferences],
                  dateRange.start, dateRange.end)
    /\ UNCHANGED now

CallSuggestOptimalTimes ==
    /\ pc = "idle"
    /\ \E t \in NowInstants, duration \in RankedDurations, preferences \in PrefsSet :
          /\ now' = t
          /\ Suspend("suggestOptimalTimes",
                     [NoArgs EXCEPT !.duration = duration,
                                    !.dateRange = [start |-> t,
                                                   end |-> t + Day(SuggestWindowDays)],
                                    !.preferences = preferences],
                     t, t + Day(SuggestWindowDays))

CallGetNextAvailableSlot ==
    /\ pc = "idle"
    /\ \E t \in NowInstants, duration \in RankedDurations, preferences \in PrefsSet :
          /\ now' = t
          /\ Suspend("getNextAvailableSlot",
                     [NoArgs EXCEPT !.duration = duration,
                                    !.dateRange = [start |-> t,
                                                   end |-> t + Day(NextWindowDays)],
                                    !.preferences = preferences],
                     t, t + Day(NextWindowDays))

CallIsSlotAvailable ==
    /\ pc = "idle"
    /\ \E start \in CheckStarts, duration \in CheckDurations, buffer \in CheckBuffers :
          LET bufferTime == BufferArgument(buffer)
              end == start + duration
              checkStart == start - bufferTime
              checkEnd == end + bufferTime
          IN Suspend("isSlotAvailable",
                     [NoArgs EXCEPT !.duration = duration, !.start = start,
                                    !.bufferGiven = buffer.given,
                                    !.bufferTime = buffer.value],
                     checkStart, checkEnd)
    /\ UNCHANGED now

\* the calendar server answers the pending request
GetFreeBusyResolves ==
    /\ pc = "awaiting"
    /\ \E clip \in BOOLEAN :
          busyTimes' = GetFreeBusyAnswer(calendar, query.timeMin, query.timeMax, clip)
    /\ pc' = "resolved"
    /\ UNCHANGED << calendar, fetches, invocations, now, op, args, query,
                    sourceError, allSlots, scoredSlots, result, error >>

\* getFreeBusy throws (no token, or a response that is not ok)
GetFreeBusyRejects ==
    /\ pc = "awaiting"
    /\ \E e \in SourceErrors : sourceError' = e
    /\ pc' = "rejected"
    /\ UNCHANGED << calendar, fetches, invocations, now, op, args, query,
                    busyTimes, allSlots, scoredSlots, result, error >>

\* a variant that catches the error and answers "nothing available"
AwaitSwallows ==
    /\ pc = "rejected"
    /\ result' = [kind |-> "slots", slots |-> << >>]
    /\ pc' = "done"
    /\ UNCHANGED << calendar, fetches, invocations, now, op, args, query,
                    busyTimes, sourceError, allSlots, scoredSlots, error >>

\* a variant that asks the calendar server again after a rejection
AwaitRetries ==
    /\ pc = "rejected"
    /\ fetches < 3
    /\ fetches' = fetches + 1
    /\ sourceError' = NoError
    /\ pc' = "awaiting"
    /\ UNCHANGED << calendar, invocations, now, op, args, query, busyTimes,
                    allSlots, scoredSlots, result, error >>

\* no operation has a try/catch around its await: the rejection leaves it
AwaitThrows ==
    /\ pc = "rejected"
    /\ error' = sourceError
    /\ pc' = "failed"
    /\ UNCHANGED << calendar, fetches, invocations, now, op, args, query,
                    busyTimes, sourceError, allSlots, scoredSlots, result >>

\* a variant that leaves out the candidates that start before the clock
AvailableSlotsFromNow(a, busy) ==
    SelectSeq(FilterAvailable(
                  generatePossibleSlots(a.dateRange, a.duration,
                                        EffectiveBuffer(a.preferences),
                                        EffectiveBusinessHours(a.preferences)),
                  busy, EffectiveBuffer(a.preferences)),
              LAMBDA slot : slot.start >= now)

\* findAvailableSlots after its await: generate, then filter
AvailableSlots(a, busy) ==
    FilterAvailable(
        generatePossibleSlots(a.dateRange, a.duration,
                              EffectiveBuffer(a.preferences),
                              EffectiveBusinessHours(a.preferences)),
        busy, EffectiveBuffer(a.preferences))

Hangs(a) ==
    LoopsForever(a.dateRange, a.duration, EffectiveBuffer(a.preferences),
                 EffectiveBusinessHours(a.preferences))

\* generatePossibleSlots never returns
GeneratorHangs ==
    /\ pc = "resolved"
    /\ op \in {"findAvailableSlots", "suggestOptimalTimes", "getNextAvailableSlot"}
    /\ Hangs(args)
    /\ pc' = "hung"
    /\ UNCHANGED << calendar, fetches, invocations, now, op, args, query,
                    busyTimes, sourceError, allSlots, scoredSlots, result,
                    error >>

Generated(a) ==
    generatePossibleSlots(a.dateRange, a.duration, EffectiveBuffer(a.preferences),
                          EffectiveBusinessHours(a.preferences))

\* a variant whose generator resets the caller's dateRange.start to midnight
\* instead of a copy of it
FindAvailableSlotsMovesStart ==
    /\ pc = "resolved"
    /\ op = "findAvailableSlots"
    /\ ~Hangs(args)
    /\ allSlots' = Generated(args)
    /\ result' = [kind |-> "slots", slots |-> AvailableSlots(args, busyTimes)]
    /\ args' = [args EXCEPT !.dateRange.start = Midnight(args.dateRange.start)]
    /\ pc' = "done"
    /\ UNCHANGED << calendar, fetches, invocations, now, op, query, busyTimes,
                    sourceError, scoredSlots, error >>

FindAvailableSlotsReturns ==
    /\ pc = "resolved"
    /\ op = "findAvailableSlots"
    /\ ~Hangs(args)
    /\ allSlots' = Generated(args)
    /\ result' = [kind |-> "slots", slots |-> AvailableSlots(args, busyTimes)]
    /\ pc' = "done"
    /\ UNCHANGED << calendar, fetches, invocations, now, op, args, query,
                    busyTimes, sourceError, scoredSlots, error >>

SuggestOptimalTimesReturns ==
    /\ pc = "resolved"
    /\ op = "suggestOptimalTimes"
    /\ ~Hangs(args)
    /\ LET availableSlots == AvailableSlots(args, busyTimes)
       IN \E delay \in Delays, tickAt \in {1, Len(availableSlots)} :
             LET clockAt == [i \in 1 .. Len(availableSlots) |->
                                IF i <= tickAt THEN now + delay ELSE now + delay + 1]
                 sorted == SortByCompare(
                               ScoreAll(availableSlots, args.preferences, clockAt))
             IN /\ scoredSlots' = sorted
                /\ result' = [kind |-> "slots",
                              slots |-> StripScore(Slice(sorted, TopSuggestions))]
    /\ allSlots' = Generated(args)
    /\ pc' = "done"
    /\ UNCHANGED << calendar, fetches, invocations, now, op, args, query,
                    busyTimes, sourceError, error >>

\* a variant that answers the last slot of the list
LastOrNull(slots) ==
    IF Len(slots) > 0 THEN [kind |-> "slot", slot |-> slots[Len(slots)]]
                      ELSE [kind |-> "null"]

\* slots.length > 0 ? slots[0] : null
FirstOrNull(slots) ==
    IF Len(slots) > 0 THEN [kind |-> "slot", slot |-> slots[1]]
                      ELSE [kind |-> "null"]

GetNextAvailableSlotReturns ==
    /\ pc = "resolved"
    /\ op = "getNextAvailableSlot"
    /\ ~Hangs(args)
    /\ result' = FirstOrNull(AvailableSlots(args, busyTimes))
    /\ allSlots' = Generated(args)
    /\ pc' = "done"
    /\ UNCHANGED << calendar, fetches, invocations, now, op, args, query,
                    busyTimes, sourceError, scoredSlots, error >>

IsSlotAvailableReturns ==
    /\ pc = "resolved"
    /\ op = "isSlotAvailable"
    /\ result' = [kind |-> "bool", value |-> (Cardinality(busyTimes) = 0)]
    /\ pc' = "done"
    /\ UNCHANGED << calendar, fetches, invocations, now, op, args, query,
                    busyTimes, sourceError, allSlots, scoredSlots, error >>

\* the caller takes the outcome; the engine keeps nothing
Return ==
    /\ pc \in {"done", "failed"}
    /\ pc' = "idle"
    /\ now' = 0
    /\ op' = "none"
    /\ args' = NoArgs
    /\ query' = NoQuery
    /\ busyTimes' = {}
    /\ sourceError' = NoError
    /\ allSlots' = << >>
    /\ scoredSlots' = << >>
    /\ result' = NoResult
    /\ error' = NoError
    /\ fetches' = 0
    /\ UNCHANGED << calendar, invocations >>

Next ==
    \/ CallFindAvailableSlots
    \/ CallSuggestOptimalTimes
    \/ CallGetNextAvailableSlot
    \/ CallIsSlotAvailable
    \/ GetFreeBusyResolves
    \/ GetFreeBusyRejects
    \/ AwaitThrows
    \/ GeneratorHangs
    \/ FindAvailableSlotsReturns
    \/ SuggestOptimalTimesReturns
    \/ GetNextAvailableSlotReturns
    \/ IsSlotAvailableReturns
    \/ Return

Spec == Init /\ [][Next]_vars

----------------------------------------------------------------------------
(* calculateSlotScore on its own: any slot start against any clock, two     *)
(* evaluations per behaviour so that scores can be compared.                *)

ScoreHours == {9, 14, 18, 21}
ScoreStarts == {At(d, h, 0) : d \in {0, 2}, h \in ScoreHours}
\* minutes from the clock to the slot's start
ScoreLags ==
    {Day(k) + m : k \in (0 .. MaxLagDays) \cup {FarLagDays}, m \in {0, 60}}
    \cup {-60, -Day(1) - 60}
ScorePrefs ==
    {NoPreferences, ScenarioAPrefs, AfternoonPrefs,
     Prefs([start |-> <<9, 0>>, end |-> <<17, 0>>], WeekDays, 15, NoTimes, Days({2}))}

InitScore ==
    /\ calendar = {}
    /\ now = 0
    /\ pc = "scoring"
    /\ op = "calculateSlotScore"
    /\ args \in {[NoArgs EXCEPT !.preferences = p] : p \in ScorePrefs}
    /\ query = NoQuery
    /\ busyTimes = {}
    /\ sourceError = NoError
    /\ allSlots = << >>
    /\ scoredSlots = << >>
    /\ result = NoResult
    /\ error = NoError
    /\ fetches = 0
    /\ invocations = NoInvocations

ScoreSlot ==
    /\ pc = "scoring"
    /\ Len(scoredSlots) < 2
    /\ \E start \in ScoreStarts, lag \in ScoreLags :
          LET slot == [start |-> start, end |-> start + 60, available |-> TRUE]
              clock == start - lag
          IN /\ now' = clock
             /\ scoredSlots' =
                   Append(scoredSlots,
                          [start |-> slot.start, end |-> slot.end,
                           available |-> slot.available,
                           score |-> calculateSlotScore(slot, args.preferences, clock),
                           clock |-> clock])
    /\ UNCHANGED << calendar, fetches, invocations, pc, op, args, query,
                    busyTimes, sourceError, allSlots, result, error >>

NextScore == ScoreSlot

SpecScore == InitScore /\ [][NextScore]_vars

----------------------------------------------------------------------------
(* The conflict filter on its own: one list of candidates filtered against  *)
(* busy arrays in any order, with duplicates and overlaps, two arrays per   *)
(* behaviour so that the survivors can be compared.  In this specification  *)
(* busyTimes is the array itself, a sequence.                               *)

\* a variant that tests the first element of the array only
FirstElement(busyList) == IF Len(busyList) > 0 THEN {busyList[1]} ELSE {}

\* busyTimes.some(...): the elements the callback is applied to
Elements(busyList) == {busyList[i] : i \in 1 .. Len(busyList)}

FilterEndpoints ==
    {At(1, 8, 30), At(1, 8, 45), At(1, 9, 0), At(1, 9, 15), At(1, 10, 15)}
FilterIntervals ==
    {Interval(w[1], w[2]) :
        w \in {v \in FilterEndpoints \X FilterEndpoints : v[1] < v[2]}}
BusyArrays ==
    {<< >>} \cup {<< b >> : b \in FilterIntervals}
            \cup {<< b, c >> : b \in FilterIntervals, c \in FilterIntervals}
FilterHours == [start |-> <<9, 0>>, end |-> <<11, 0>>, daysOfWeek |-> {1}]
FilterCases ==
    {[NoArgs EXCEPT !.duration = 15, !.bufferTime = 0],
     [NoArgs EXCEPT !.duration = 15, !.bufferTime = 15],
     [NoArgs EXCEPT !.duration = 60, !.bufferTime = 0],
     [NoArgs EXCEPT !.duration = 60, !.bufferTime = 15]}

InitFilter ==
    /\ calendar = {}
    /\ now = 0
    /\ pc = "filtering"
    /\ op = "isSlotBusy"
    /\ args \in FilterCases
    /\ query = NoQuery
    /\ busyTimes = << >>
    /\ sourceError = NoError
    /\ allSlots = generatePossibleSlots([start |-> At(1, 0, 0), end |-> At(1, 23, 59)],
                                        args.duration, args.bufferTime, FilterHours)
    /\ scoredSlots = << >>
    /\ result = NoResult
    /\ error = NoError
    /\ fetches = 0
    /\ invocations = NoInvocations

\* allSlots.filter(...) against one busy array; the array and the survivors
\* are kept in scoredSlots
ApplyFilter ==
    /\ pc = "filtering"
    /\ Len(scoredSlots) < 2
    /\ \E busyList \in BusyArrays :
          /\ busyTimes' = busyList
          /\ scoredSlots' =
                Append(scoredSlots,
                       [busy |-> busyList,
                        kept |-> FilterAvailable(allSlots, Elements(busyList),
                                                 args.bufferTime)])
    /\ UNCHANGED << calendar, fetches, invocations, now, pc, op, args, query,
                    sourceError, allSlots, result, error >>

NextFilter == ApplyFilter

SpecFilter == InitFilter /\ [][NextFilter]_vars

----------------------------------------------------------------------------
(* Several invocations in flight.  The methods are static and async: each   *)
(* call has its own parameters and locals and is suspended only at its      *)
(* await of getFreeBusy, where the steps of other calls interleave.  The    *)
(* wall clock (now) is shared and moves on between steps.                   *)

WallClock == {At(0, 9, 0), At(1, 15, 0)}

ConcurrentDurations == {60, 720}
ConcurrentRange == [start |-> At(0, 0, 0), end |-> At(1, 12, 0)]
ConcurrentPrefs == {NoPreferences, AfternoonPrefs}
ConcurrentChecks == {At(1, 9, 15), At(1, 15, 0)}

\* the clock read for candidate i of a suggestOptimalTimes call: it passes to
\* the next minute after candidate tickAt
ClockAt(clock, i) == IF i <= clock.tickAt THEN clock.first ELSE clock.first + 1

\* what an operation returns from its arguments, the answer of getFreeBusy
\* and, for suggestOptimalTimes, the clock readings of its scoring
Outcome(name, a, busy, clock) ==
    IF name = "findAvailableSlots"
    THEN [kind |-> "slots", slots |-> AvailableSlots(a, busy)]
    ELSE IF name = "suggestOptimalTimes"
    THEN LET availableSlots == AvailableSlots(a, busy)
             clockAt == [i \in 1 .. Len(availableSlots) |-> ClockAt(clock, i)]
         IN [kind |-> "slots",
             slots |-> StripScore(Slice(SortByCompare(
                           ScoreAll(availableSlots, a.preferences, clockAt)),
                           TopSuggestions))]
    ELSE IF name = "getNextAvailableSlot"
    THEN FirstOrNull(AvailableSlots(a, busy))
    ELSE [kind |-> "bool", value |-> (Cardinality(busy) = 0)]

single == << calendar, pc, op, args, query, busyTimes, sourceError, allSlots,
            scoredSlots, result, error, fetches >>

InitConcurrent ==
    /\ calendar \in Calendars
    /\ now \in WallClock
    /\ pc = "concurrent"
    /\ op = "none"
    /\ args = NoArgs
    /\ query = NoQuery
    /\ busyTimes = {}
    /\ sourceError = NoError
    /\ allSlots = << >>
    /\ scoredSlots = << >>
    /\ result = NoResult
    /\ error = NoError
    /\ fetches = 0
    /\ invocations = NoInvocations

\* invocation p runs up to its await of getFreeBusy
SuspendInvocation(p, name, a, timeMin, timeMax) ==
    /\ invocations[p].pc = "idle"
    /\ invocations' = [invocations EXCEPT ![p] =
                          [IdleInvocation EXCEPT
                              !.pc = "awaiting", !.op = name, !.args = a,
                              !.query = [timeMin |-> timeMin, timeMax |-> timeMax]]]
    /\ UNCHANGED << single, now >>

InvokeFindAvailableSlots(p) ==
    \E duration \in ConcurrentDurations, preferences \in ConcurrentPrefs :
        SuspendInvocation(p, "findAvailableSlots",
                          [NoArgs EXCEPT !.duration = duration,
                                         !.dateRange = ConcurrentRange,
                                         !.preferences = preferences],
                          ConcurrentRange.start, ConcurrentRange.end)

InvokeSuggestOptimalTimes(p) ==
    \E preferences \in ConcurrentPrefs :
        SuspendInvocation(p, "suggestOptimalTimes",
                          [NoArgs EXCEPT !.duration = 720,
                                         !.dateRange =
                                             [start |-> now,
                                              end |-> now + Day(SuggestWindowDays)],
                                         !.preferences = preferences],
                          now, now + Day(SuggestWindowDays))

InvokeGetNextAvailableSlot(p) ==
    \E preferences \in ConcurrentPrefs :
        SuspendInvocation(p, "getNextAvailableSlot",
                          [NoArgs EXCEPT !.duration = 720,
                                         !.dateRange =
                                             [start |-> now,
                                              end |-> now + Day(NextWindowDays)],
                                         !.preferences = preferences],
                          now, now + Day(NextWindowDays))

InvokeIsSlotAvailable(p) ==
    \E start \in ConcurrentChecks, buffer \in CheckBuffers :
        SuspendInvocation(p, "isSlotAvailable",
                          [NoArgs EXCEPT !.duration = 60, !.start = start,
                                         !.bufferGiven = buffer.given,
                                         !.bufferTime = buffer.value],
                          start - BufferArgument(buffer),
                          start + 60 + BufferArgument(buffer))

\* the calendar server answers the request of invocation p
SourceResolves(p) ==
    /\ invocations[p].pc = "awaiting"
    /\ \E clip \in BOOLEAN :
          invocations' = [invocations EXCEPT
              ![p].busyTimes = GetFreeBusyAnswer(calendar, invocations[p].query.timeMin,
                                                 invocations[p].query.timeMax, clip),
              ![p].pc = "resolved"]
    /\ UNCHANGED << single, now >>

SourceRejects(p) ==
    /\ invocations[p].pc = "awaiting"
    /\ \E e \in SourceErrors :
          invocations' = [invocations EXCEPT ![p].sourceError = e,
                                             ![p].pc = "rejected"]
    /\ UNCHANGED << single, now >>

InvocationThrows(p) ==
    /\ invocations[p].pc = "rejected"
    /\ invocations' = [invocations EXCEPT ![p].error = invocations[p].sourceError,
                                          ![p].pc = "failed"]
    /\ UNCHANGED << single, now >>

\* a variant that keeps the answer of getFreeBusy in a static field, which the
\* latest answer overwrites
AnswerOfLatest(p) ==
    IF \E q \in Invocations \ {p} : invocations[q].pc \in {"resolved", "done"}
    THEN invocations[CHOOSE q \in Invocations \ {p} :
                        invocations[q].pc \in {"resolved", "done"}].busyTimes
    ELSE invocations[p].busyTimes

\* const busyTimes = await ...: a local of the call
AnswerOf(p) == invocations[p].busyTimes

\* invocation p runs from its await to its return; clock is the wall clock of
\* this step, which only the scoring of suggestOptimalTimes reads
InvocationReturns(p) ==
    /\ invocations[p].pc = "resolved"
    /\ \E tickAt \in IF invocations[p].op = "suggestOptimalTimes" THEN {0, 1} ELSE {0} :
          LET clock == [first |-> now, tickAt |-> tickAt]
          IN invocations' = [invocations EXCEPT
                 ![p].clock = clock,
                 ![p].result = Outcome(invocations[p].op, invocations[p].args,
                                       AnswerOf(p), clock),
                 ![p].pc = "done"]
    /\ UNCHANGED << single, now >>

\* the caller of invocation p takes the outcome
InvocationEnds(p) ==
    /\ invocations[p].pc \in {"done", "failed"}
    /\ invocations' = [invocations EXCEPT ![p] = IdleInvocation]
    /\ UNCHANGED << single, now >>

\* time passes
Tick ==
    /\ \E t \in WallClock : t > now /\ now' = t
    /\ UNCHANGED << single, invocations >>

NextConcurrent ==
    \/ \E p \in Invocations : InvokeFindAvailableSlots(p)
    \/ \E p \in Invocations : InvokeSuggestOptimalTimes(p)
    \/ \E p \in Invocations : InvokeGetNextAvailableSlot(p)
    \/ \E p \in Invocations : InvokeIsSlotAvailable(p)
    \/ \E p \in Invocations : SourceResolves(p)
    \/ \E p \in Invocations : SourceRejects(p)
    \/ \E p \in Invocations : InvocationThrows(p)
    \/ \E p \in Invocations : InvocationReturns(p)
    \/ \E p \in Invocations : InvocationEnds(p)
    \/ Tick

SpecConcurrent == InitConcurrent /\ [][NextConcurrent]_vars

----------------------------------------------------------------------------
(* Properties *)

FindDone == pc = "done" /\ op = "findAvailableSlots"
SuggestDone == pc = "done" /\ op = "suggestOptimalTimes"

\* a request the data model allows: start <= end, a positive duration
ValidRequest == args.dateRange.start <= args.dateRange.end /\ args.duration > 0

\* the bufferMinutes of the request; the documented default when omitted
RequestBuffer(preferences) ==
    IF preferences.defined THEN preferences.bufferMinutes ELSE DefaultBufferTime

\* a window [S, E] and a busy interval [b.start, b.end) share more than an endpoint
Overlaps(S, E, b) == S < b.end /\ E > b.start

\* C1: for every slot returned by findAvailableSlots and every busy interval
\* the source supplied for the call, the slot's window expanded by the
\* request's bufferMinutes on both sides does not overlap the interval.
C1_ReturnedSlotsClearOfBusy ==
    FindDone =>
        \A i \in 1 .. Len(result.slots) : \A b \in busyTimes :
            ~Overlaps(result.slots[i].start - RequestBuffer(args.preferences),
                      result.slots[i].end + RequestBuffer(args.preferences), b)

\* findAvailableSlots returned slots and dropped a candidate for a busy
\* interval the source supplied
C1_Witness ==
    /\ FindDone
    /\ busyTimes # {}
    /\ Len(result.slots) > 0
    /\ Len(result.slots) < Len(allSlots)

\* C2: every slot findAvailableSlots returns passes isSlotAvailable for the
\* same calendar, start, duration and buffer (stated for valid requests).
C2_FindAgreesWithIsSlotAvailable ==
    (FindDone /\ ValidRequest) =>
        \A i \in 1 .. Len(result.slots) :
            IsSlotAvailableOn(calendar, result.slots[i].start, args.duration,
                              RequestBuffer(args.preferences))

\* C3: with preferences passed, every generated slot falls on one of
\* preferences.workingDays and inside preferences.workingHours of its day
\* (stated for valid requests).
C3_SlotsWithinWorkingHours ==
    (FindDone /\ ValidRequest /\ args.preferences.defined) =>
        \A i \in 1 .. Len(allSlots) :
            /\ GetDay(allSlots[i].start) \in args.preferences.workingDays
            /\ SetHours(allSlots[i].start, args.preferences.workingHours.start)
                  <= allSlots[i].start
            /\ allSlots[i].end
                  <= SetHours(allSlots[i].start, args.preferences.workingHours.end)

SlotsOf(r) ==
    IF r.kind = "slots" THEN {r.slots[i] : i \in 1 .. Len(r.slots)}
    ELSE IF r.kind = "slot" THEN {r.slot}
    ELSE {}

\* C4: every generated slot, and every slot findAvailableSlots,
\* suggestOptimalTimes or getNextAvailableSlot returns, spans exactly the
\* requested duration: end - start = durationMinutes, the buffer not included.
C4_SlotSpanIsDuration ==
    (pc = "done" /\ op # "isSlotAvailable") =>
        /\ \A i \in 1 .. Len(allSlots) :
              allSlots[i].end - allSlots[i].start = args.duration
        /\ \A slot \in SlotsOf(result) : slot.end - slot.start = args.duration

\* suggestOptimalTimes returned several slots generated with a buffer
C4_Witness ==
    /\ SuggestDone
    /\ Len(result.slots) > 1
    /\ Len(allSlots) > Len(result.slots)
    /\ EffectiveBuffer(args.preferences) > 0

\* C5: suggestOptimalTimes returns at most 10 slots, and the scores of the
\* returned slots never increase along the returned sequence.
C5_AtMostTenByFallingScore ==
    SuggestDone =>
        /\ Len(result.slots) <= 10
        /\ Len(result.slots) <= Len(scoredSlots)
        /\ \A i \in 1 .. Len(result.slots) :
              /\ result.slots[i].start = scoredSlots[i].start
              /\ i > 1 => scoredSlots[i - 1].score >= scoredSlots[i].score

\* more than ten candidates were scored, ten came back, with differing scores
\* and not in chronological order
C5_Witness ==
    /\ SuggestDone
    /\ Len(scoredSlots) > 10
    /\ Len(result.slots) = 10
    /\ scoredSlots[1].score > scoredSlots[10].score
    /\ \E i \in 1 .. 9 : result.slots[i].start > result.slots[i + 1].start

\* C6: when the busy-time source call fails, the operation fails with that
\* same error and returns nothing: no slots, no boolean, no null.
C6_SourceFailurePropagates ==
    /\ (sourceError # NoError /\ pc # "rejected") =>
          /\ pc = "failed"
          /\ error = sourceError
          /\ result = NoResult
          /\ allSlots = << >>
    /\ pc = "failed" => error \in SourceErrors

\* an operation failed with the source's error
C6_Witness ==
    /\ pc = "failed"
    /\ op = "getNextAvailableSlot"
    /\ error = "Failed to get free/busy info"

\* C7: findAvailableSlots raises InvalidRangeError, and returns no slots,
\* whenever dateRange.start > dateRange.end or durationMinutes <= 0.
C7_InvalidRequestRaises ==
    (/\ op = "findAvailableSlots"
     /\ (args.dateRange.start > args.dateRange.end \/ args.duration <= 0)
     /\ sourceError = NoError
     /\ pc \in {"done", "failed", "hung"}) =>
        /\ pc = "failed"
        /\ error = "InvalidRangeError"
        /\ result = NoResult

\* day 1 of the model's week is a Monday
ScenarioABusy == Interval(At(1, 9, 0), At(1, 9, 15))

\* C8: Scenario A: duration 15, working hours 09:00-17:00, working days
\* Monday to Friday, bufferMinutes 0, one busy interval 09:00-09:15 on a
\* Monday: the first slot returned for that Monday starts at 09:15.
C8_ScenarioAFirstSlot ==
    (/\ FindDone
     /\ args.duration = 15
     /\ args.preferences = ScenarioAPrefs
     /\ args.dateRange = [start |-> At(1, 0, 0),
                          end |-> At(1, 23, 59)]
     /\ busyTimes = {ScenarioABusy}) =>
        \E i \in 1 .. Len(result.slots) :
            /\ result.slots[i].start = At(1, 9, 15)
            /\ \A j \in 1 .. (i - 1) :
                  Midnight(result.slots[j].start) # Day(1)

\* the number of full days between two instants
FullDaysBetween(a, b) == (IF a <= b THEN b - a ELSE a - b) \div MinutesPerDay

Ind(cond) == IF cond THEN 1 ELSE 0

ClaimedScore(slot, clock, preferences) ==
    LET h == GetHours(slot.start)
        d == GetDay(slot.start)
        raw == 100 + 30 * Ind(d \in WeekDays /\ h \in 18 .. 19)
                   + 25 * Ind(d = 0 /\ h \in 14 .. 16)
                   - 20 * Ind(h < 10 \/ h >= 20)
                   - 2 * FullDaysBetween(clock, slot.start)
                   + 20 * Ind(/\ preferences.defined
                              /\ preferences.preferredDays.defined
                              /\ d \in preferences.preferredDays.days)
    IN Max(0, raw)

\* C9: the score of a slot is max(0, 100 + 30*[Mon-Fri, hour 18..19]
\* + 25*[Sunday, hour 14..16] - 20*[hour < 10 or >= 20]
\* - 2*(full days between now and the slot's start)
\* + 20*[preferredDays present and holding the weekday]).
C9_ScoreFormula ==
    SuggestDone =>
        \A i \in 1 .. Len(scoredSlots) :
            scoredSlots[i].score
                = ClaimedScore(scoredSlots[i], scoredSlots[i].clock, args.preferences)

\* two scored slots that differ only in the weekday: a Sunday and a Tuesday
\* with the same start time of day and the same number of full days from now
SundayTuesdayTwins(a, b) ==
    /\ GetDay(a.start) = 0
    /\ GetDay(b.start) = 2
    /\ a.start % MinutesPerDay = b.start % MinutesPerDay
    /\ (a.start - a.clock) \div MinutesPerDay = (b.start - b.clock) \div MinutesPerDay

\* C10 as stated: Scenario D: with preferredDays = [0], a Sunday slot scores
\* exactly 20 more than an otherwise identical Tuesday slot.
C10_SundayBoostAlways ==
    args.preferences.preferredDays = Days({0}) =>
        \A i, j \in 1 .. Len(scoredSlots) :
            SundayTuesdayTwins(scoredSlots[i], scoredSlots[j]) =>
                scoredSlots[i].score = scoredSlots[j].score + 20

\* the Tuesday slot's score before the clamp to 0, at a start hour that earns
\* neither the weekday-evening nor the Sunday-afternoon bonus
PlainUnclamped(slot) ==
    100 - 20 * Ind(GetHours(slot.start) < 10 \/ GetHours(slot.start) >= 20)
        - 2 * ((slot.start - slot.clock) \div MinutesPerDay)

PlainHour(slot) ==
    /\ GetHours(slot.start) \notin 14 .. 16
    /\ GetHours(slot.start) \notin 18 .. 19

\* C10 as amended: with preferredDays = [0], a Sunday slot scores exactly 20
\* more than an otherwise identical Tuesday slot when the start hour is
\* outside 14..16 and 18..19 and the Tuesday slot's score before the clamp
\* is not negative.
C10_SundayBoostOutsideBonusHours ==
    args.preferences.preferredDays = Days({0}) =>
        \A i, j \in 1 .. Len(scoredSlots) :
            (/\ SundayTuesdayTwins(scoredSlots[i], scoredSlots[j])
             /\ PlainHour(scoredSlots[j])
             /\ PlainUnclamped(scoredSlots[j]) >= 0) =>
                scoredSlots[i].score = scoredSlots[j].score + 20

\* a Sunday 09:00 slot and its Tuesday twin, both three days ahead, were scored
C10_Witness ==
    /\ args.preferences.preferredDays = Days({0})
    /\ Len(scoredSlots) = 2
    /\ SundayTuesdayTwins(scoredSlots[1], scoredSlots[2])
    /\ GetHours(scoredSlots[1].start) = 9
    /\ scoredSlots[1].start - scoredSlots[1].clock = Day(3)
    /\ scoredSlots[1].score = scoredSlots[2].score + 20

\* C11: within one suggestOptimalTimes call every candidate is scored against
\* the same 'now': one of the clock readings of the call gives every
\* candidate the score it received.
C11_OneNowPerCall ==
    SuggestDone =>
        (Len(scoredSlots) > 0 =>
            \E k \in 1 .. Len(scoredSlots) :
                \A i \in 1 .. Len(scoredSlots) :
                    scoredSlots[i].score =
                        calculateSlotScore(scoredSlots[i], args.preferences,
                                           scoredSlots[k].clock))

NextDone == pc = "done" /\ op = "getNextAvailableSlot"

\* C13: getNextAvailableSlot returns the slot with the earliest start among
\* the slots findAvailableSlots returns for the 30-day window beginning at
\* the call, and null if and only if that list is empty.
C13_NextIsEarliestOfFind ==
    NextDone =>
        LET slots == AvailableSlots([args EXCEPT !.dateRange =
                                        [start |-> now, end |-> now + Day(30)]],
                                    busyTimes)
        IN /\ (result.kind = "null") <=> (Len(slots) = 0)
           /\ Len(slots) > 0 =>
                 /\ result.kind = "slot"
                 /\ \E i \in 1 .. Len(slots) : slots[i] = result.slot
                 /\ \A i \in 1 .. Len(slots) : result.slot.start <= slots[i].start

\* getNextAvailableSlot returned a slot that is not the first one generated:
\* the earlier candidates were busy
C13_Witness ==
    /\ NextDone
    /\ result.kind = "slot"
    /\ busyTimes # {}
    /\ Len(allSlots) > 1
    /\ result.slot.start > allSlots[1].start

\* C14: every slot getNextAvailableSlot returns lies inside the 30-day
\* horizon that starts at the call: slot.start >= now and
\* slot.end <= now + 30 days.
C14_NextWithinHorizon ==
    (NextDone /\ result.kind = "slot") =>
        /\ result.slot.start >= now
        /\ result.slot.end <= now + Day(30)

\* C15: isSlotAvailable(calendar, start, duration, buffer) asks the source for
\* exactly the window [start - buffer, start + duration + buffer], with the
\* buffer it was given (0 included) and 15 only when the argument is omitted,
\* and returns true if and only if the source returns no busy interval for
\* that window.
C15_CheckWindowAndAnswer ==
    (op = "isSlotAvailable" /\ pc # "idle") =>
        LET buffer == IF args.bufferGiven THEN args.bufferTime ELSE 15
            window == [timeMin |-> args.start - buffer,
                       timeMax |-> args.start + args.duration + buffer]
        IN /\ query = window
           /\ pc = "done" =>
                 /\ result.kind = "bool"
                 /\ result.value = (busyTimes = {})

\* isSlotAvailable with buffer 0 asked for the slot's own window and, the
\* answer being empty, returned true
C15_Witness ==
    /\ op = "isSlotAvailable"
    /\ pc = "done"
    /\ args.bufferGiven
    /\ args.bufferTime = 0
    /\ query.timeMin = args.start
    /\ busyTimes = {}
    /\ result.value = TRUE

\* the weekdays of the calendar days the range touches
RangeWeekdays(dateRange) ==
    {GetDay(Day(d)) : d \in (dateRange.start \div MinutesPerDay)
                            .. (dateRange.end \div MinutesPerDay)}

\* minutes between two "HH:mm" times of a day
MinutesBetween(from, to) == (to[1] * 60 + to[2]) - (from[1] * 60 + from[2])

\* the working-hours window of the request; 09:00-21:00 when preferences are
\* omitted
WorkingWindow(preferences) ==
    IF preferences.defined
    THEN MinutesBetween(preferences.workingHours.start, preferences.workingHours.end)
    ELSE 720

\* C16: findAvailableSlots completes without an error and returns the empty
\* sequence when no day of the range has a weekday in preferences.workingDays
\* (workingDays empty included), when every generated candidate conflicts
\* with a busy interval, and when durationMinutes exceeds the working-hours
\* window (stated for valid requests the source answered).
C16_EmptyWithoutError ==
    (/\ op = "findAvailableSlots"
     /\ pc \in {"done", "hung"}
     /\ ValidRequest
     /\ \/ /\ args.preferences.defined
           /\ RangeWeekdays(args.dateRange) \cap args.preferences.workingDays = {}
        \/ \A i \in 1 .. Len(allSlots) : \E b \in busyTimes :
              Overlaps(allSlots[i].start - RequestBuffer(args.preferences),
                       allSlots[i].end + RequestBuffer(args.preferences), b)
        \/ args.duration > WorkingWindow(args.preferences))
    => (pc = "done" /\ error = NoError /\ result.slots = << >>)

\* C17: with preferences omitted, findAvailableSlots generates candidates with
\* working hours 09:00-21:00, all seven weekdays and a buffer of 15 minutes; a
\* bufferMinutes the caller supplies (0 included) replaces the 15 (stated for
\* valid requests).
C17_DefaultsAndCallerBuffer ==
    (FindDone /\ ValidRequest) =>
        /\ ~args.preferences.defined =>
              allSlots = generatePossibleSlots(
                             args.dateRange, args.duration, 15,
                             [start |-> <<9, 0>>, end |-> <<21, 0>>,
                              daysOfWeek |-> 0 .. 6])
        /\ args.preferences.defined =>
              allSlots = generatePossibleSlots(
                             args.dateRange, args.duration,
                             args.preferences.bufferMinutes,
                             EffectiveBusinessHours(args.preferences))

\* the window the operation in progress is to ask the source for
RequestWindow ==
    IF op = "findAvailableSlots"
    THEN [timeMin |-> args.dateRange.start, timeMax |-> args.dateRange.end]
    ELSE IF op = "suggestOptimalTimes"
    THEN [timeMin |-> now, timeMax |-> now + Day(14)]
    ELSE IF op = "getNextAvailableSlot"
    THEN [timeMin |-> now, timeMax |-> now + Day(30)]
    ELSE [timeMin |-> args.start - BufferArgument([given |-> args.bufferGiven,
                                                   value |-> args.bufferTime]),
          timeMax |-> args.start + args.duration
                         + BufferArgument([given |-> args.bufferGiven,
                                           value |-> args.bufferTime])]

\* C19: each invocation of findAvailableSlots, suggestOptimalTimes,
\* getNextAvailableSlot and isSlotAvailable issues exactly one source request,
\* findAvailableSlots over exactly [dateRange.start, dateRange.end]; the
\* request is issued before anything is returned and is not repeated after a
\* failure.
C19_OneSourceRequest ==
    /\ pc = "idle" => (fetches = 0 /\ result = NoResult)
    /\ pc \in {"awaiting", "resolved", "rejected", "done", "failed", "hung"} =>
          /\ fetches = 1
          /\ query = RequestWindow
    /\ result # NoResult => pc = "done"

\* findAvailableSlots failed on a rejected request, having asked once
C19_Witness ==
    /\ op = "findAvailableSlots"
    /\ pc = "failed"
    /\ error # NoError
    /\ fetches = 1
    /\ query = [timeMin |-> args.dateRange.start, timeMax |-> args.dateRange.end]

\* C20: in the sequence suggestOptimalTimes returns, any two slots with equal
\* score appear in order of start time, the earliest first.
C20_TiesEarliestFirst ==
    SuggestDone =>
        \A i, j \in 1 .. Len(result.slots) :
            (i < j /\ scoredSlots[i].score = scoredSlots[j].score) =>
                result.slots[i].start < result.slots[j].start

\* suggestOptimalTimes returned slots out of chronological order, two of them
\* with the same score
C20_Witness ==
    /\ SuggestDone
    /\ \E i, j \in 1 .. Len(result.slots) :
          /\ i < j
          /\ scoredSlots[i].score = scoredSlots[j].score
          /\ result.slots[i].start < result.slots[j].start
    /\ \E i, j \in 1 .. Len(result.slots) :
          /\ i < j
          /\ scoredSlots[i].score > scoredSlots[j].score
          /\ result.slots[i].start > result.slots[j].start

C21_TopScoringSlots ==
    SuggestDone =>
        LET slots == AvailableSlots([args EXCEPT !.dateRange =
                                        [start |-> now, end |-> now + Day(14)]],
                                    busyTimes)
            n == Len(slots)
            m == Len(result.slots)
        IN /\ m = (IF n < 10 THEN n ELSE 10)
           /\ Len(scoredSlots) = n
           /\ \A i \in 1 .. n : \E j \in 1 .. n :
                 StripScore(<< scoredSlots[j] >>) = << slots[i] >>
           /\ \A i \in 1 .. m : result.slots[i] = StripScore(<< scoredSlots[i] >>)[1]
           /\ \A i, j \in 1 .. m : i # j => result.slots[i] # result.slots[j]
           /\ \A i \in 1 .. m : \A j \in (m + 1) .. n :
                 scoredSlots[j].score <= scoredSlots[i].score

\* more than ten slots were found; one left out scores less than the tenth
\* returned although it starts earlier
C21_Witness ==
    /\ SuggestDone
    /\ Len(result.slots) = 10
    /\ \E j \in 11 .. Len(scoredSlots) :
          /\ scoredSlots[j].score < scoredSlots[10].score
          /\ scoredSlots[j].start < scoredSlots[10].start

\* the starts of the generated slots that fall on the calendar day d
StartsOn(d) ==
    {allSlots[i].start : i \in {j \in 1 .. Len(allSlots) :
                                   Midnight(allSlots[j].start) = Day(d)}}

\* open + k * pitch for every k >= 0 with open + k * pitch + duration <= close
PitchedStarts(open, close, duration, pitch) ==
    {open + k * pitch : k \in {j \in 0 .. MinutesPerDay :
                                  open + j * pitch + duration <= close}}

\* C22: for every day slots are generated on, every duration >= 1 and every
\* bufferMinutes >= 0 (0 included), the generated slot starts of the day are
\* exactly open + k * (duration + bufferMinutes) for the k >= 0 with
\* open + k * (duration + bufferMinutes) + duration <= close.
C22_SlotPitch ==
    (FindDone /\ ValidRequest) =>
        LET businessHours == EffectiveBusinessHours(args.preferences)
        IN \A d \in (args.dateRange.start \div MinutesPerDay)
                    .. (args.dateRange.end \div MinutesPerDay) :
              GetDay(Day(d)) \in businessHours.daysOfWeek =>
                  StartsOn(d) =
                      PitchedStarts(SetHours(Day(d), businessHours.start),
                                    SetHours(Day(d), businessHours.end),
                                    args.duration,
                                    args.duration + RequestBuffer(args.preferences))

\* the candidate is among the survivors
Kept(slot, run) == \E k \in 1 .. Len(run.kept) : run.kept[k] = slot

\* C23: the conflict filter rejects a candidate if and only if its window
\* [S, E] = [slot.start - buffer, slot.end + buffer] overlaps some busy
\* interval [bs, be), that is S < be and E > bs; an interval that contains
\* the slot rejects it and one that touches the window at an endpoint does
\* not.
C23_RejectsIffOverlap ==
    \A r \in 1 .. Len(scoredSlots) : \A i \in 1 .. Len(allSlots) :
        ~Kept(allSlots[i], scoredSlots[r]) <=>
            \E k \in 1 .. Len(scoredSlots[r].busy) :
                Overlaps(allSlots[i].start - args.bufferTime,
                         allSlots[i].end + args.bufferTime,
                         scoredSlots[r].busy[k])

\* against one busy array a candidate was rejected for an interval that
\* contains its slot, and another was kept although an interval ends exactly
\* where its window starts
C23_Witness ==
    /\ pc = "filtering"
    /\ Len(scoredSlots) > 0
    /\ \E i \in 1 .. Len(allSlots) : \E k \in 1 .. Len(scoredSlots[1].busy) :
          /\ ~Kept(allSlots[i], scoredSlots[1])
          /\ scoredSlots[1].busy[k].start < allSlots[i].start - args.bufferTime
          /\ scoredSlots[1].busy[k].end > allSlots[i].end + args.bufferTime
    /\ \E i \in 1 .. Len(allSlots) : \E k \in 1 .. Len(scoredSlots[1].busy) :
          /\ Kept(allSlots[i], scoredSlots[1])
          /\ scoredSlots[1].busy[k].end = allSlots[i].start - args.bufferTime

\* the union of a busy array, each interval being [start, end): the intervals
\* begin and end at FilterEndpoints, so the union is known by the endpoints it
\* holds
Covered(busyList) ==
    {t \in FilterEndpoints :
        \E k \in 1 .. Len(busyList) : busyList[k].start <= t /\ t < busyList[k].end}

\* C24: the survivors of the conflict filter depend only on the union of the
\* busy intervals: two busy arrays with the same union (one a permutation of
\* the other, with a duplicate, or with overlapping intervals merged) leave
\* the same candidates in the same order.
C24_DependsOnUnionOnly ==
    \A r, q \in 1 .. Len(scoredSlots) :
        Covered(scoredSlots[r].busy) = Covered(scoredSlots[q].busy) =>
            scoredSlots[r].kept = scoredSlots[q].kept

\* two overlapping intervals, then their merged interval: the same survivors,
\* some candidates rejected and some kept
C24_Witness ==
    /\ pc = "filtering"
    /\ Len(scoredSlots) = 2
    /\ Len(scoredSlots[1].busy) = 2
    /\ scoredSlots[1].busy[1].start < scoredSlots[1].busy[2].start
    /\ scoredSlots[1].busy[2].start < scoredSlots[1].busy[1].end
    /\ scoredSlots[1].busy[1].end < scoredSlots[1].busy[2].end
    /\ scoredSlots[2].busy = << Interval(scoredSlots[1].busy[1].start,
                                         scoredSlots[1].busy[2].end) >>
    /\ scoredSlots[1].kept = scoredSlots[2].kept
    /\ Len(scoredSlots[1].kept) > 0
    /\ Len(scoredSlots[1].kept) < Len(allSlots)

\* C25: findAvailableSlots returns a subsequence of the generated candidates
\* in strictly increasing order of start time, and every returned slot has
\* available = true and no score field.
C25_ChronologicalSubsequence ==
    FindDone =>
        /\ result.slots =
              SelectSeq(allSlots,
                        LAMBDA slot : \E k \in 1 .. Len(result.slots) :
                                         result.slots[k] = slot)
        /\ \A i \in 1 .. Len(result.slots) :
              /\ i > 1 => result.slots[i - 1].start < result.slots[i].start
              /\ result.slots[i].available = TRUE
              /\ DOMAIN result.slots[i] = {"start", "end", "available"}

\* slots of two days came back, a candidate between the first and the last
\* of them left out
C25_Witness ==
    /\ FindDone
    /\ Len(result.slots) > 2
    /\ Midnight(result.slots[1].start) < Midnight(result.slots[Len(result.slots)].start)
    /\ \E i \in 1 .. Len(allSlots) :
          /\ allSlots[i].start > result.slots[1].start
          /\ allSlots[i].start < result.slots[Len(result.slots)].start
          /\ \A k \in 1 .. Len(result.slots) : result.slots[k] # allSlots[i]

C27_ReturnedSlotsInsideRange ==
    (FindDone /\ ValidRequest) =>
        /\ query = [timeMin |-> args.dateRange.start, timeMax |-> args.dateRange.end]
        /\ \A i \in 1 .. Len(result.slots) :
              /\ args.dateRange.start <= result.slots[i].start
              /\ result.slots[i].end <= args.dateRange.end

\* C28: slot generation terminates for every finite date range and every
\* integer durationMinutes and bufferMinutes, durationMinutes <= 0 and
\* durationMinutes + buffer <= 0 included: no call is left inside the
\* generator.
C28_GenerationTerminates == pc # "hung"

\* C29: no two slots returned by one findAvailableSlots call overlap, and
\* consecutive returned slots a, b of one day are at least the buffer apart:
\* b.start - a.end >= bufferMinutes (stated for valid requests).
C29_ReturnedSlotsApart ==
    (FindDone /\ ValidRequest) =>
        /\ \A i, j \in 1 .. Len(result.slots) :
              i < j => result.slots[i].end <= result.slots[j].start
        /\ \A i \in 1 .. Len(result.slots) - 1 :
              Midnight(result.slots[i].start) = Midnight(result.slots[i + 1].start)
                  => result.slots[i + 1].start - result.slots[i].end
                        >= RequestBuffer(args.preferences)

\* with the default buffer, two slots of one day came back exactly 15 minutes
\* apart and two others further apart, the candidates between them being busy
C29_Witness ==
    /\ FindDone
    /\ ValidRequest
    /\ ~args.preferences.defined
    /\ \E i \in 1 .. Len(result.slots) - 1 :
          /\ Midnight(result.slots[i].start) = Midnight(result.slots[i + 1].start)
          /\ result.slots[i + 1].start - result.slots[i].end = 15
    /\ \E i \in 1 .. Len(result.slots) - 1 :
          /\ Midnight(result.slots[i].start) = Midnight(result.slots[i + 1].start)
          /\ result.slots[i + 1].start - result.slots[i].end > 15

\* C30: for every slot scored inside suggestOptimalTimes the days-from-now
\* value is >= 0, so the score is at most 150 and never exceeds the score the
\* same slot gets when it starts at 'now'.
C30_RecencyNeverRaises ==
    SuggestDone =>
        \A i \in 1 .. Len(scoredSlots) :
            /\ (scoredSlots[i].start - scoredSlots[i].clock) \div MinutesPerDay >= 0
            /\ scoredSlots[i].score <= 150
            /\ scoredSlots[i].score <=
                  calculateSlotScore(scoredSlots[i], args.preferences,
                                     scoredSlots[i].start)

====
